---------------------------- MODULE Spec2Model ----------------------------
(* Model of backend/app/services/task_queue.py: the TaskQueue scheduler.   *)
(* Three threads share the queue object: the worker thread running         *)
(* _worker_main, a client thread calling submit_task and a client thread   *)
(* calling cancel_task.  Each action is one run of statements of one       *)
(* thread between two points where another thread's effect can be seen.    *)
(* Time passes in whole seconds and only while a task or the sleeping      *)
(* worker waits for it, so no stored result outlives the retention window. *)
(* PoolSpec adds what the executor does: a work item that runs for longer  *)
(* than the retention window, and a synchronous work item that goes on     *)
(* running in its pool thread after wait_for has timed out on it.          *)
(* Model of backend/app/services/websocket_service.py: the WebSocketManager *)
(* hub.  Its threads are the event handlers of the connected clients and   *)
(* the monitor threads started on connect; the hub reads the scheduler's   *)
(* task_results through get_task_status.  Clients send no join_room event, *)
(* so room_subscribers stays empty and is left out.                        *)
EXTENDS Integers, Sequences, FiniteSets, TLC

(* ------------------------------ bounds -------------------------------- *)
\* number of submit_task calls that create a task
MaxTasks == 2
\* number of cancel_task calls
MaxCancels == 1
\* largest max_queue_size a TaskQueue is constructed with
max_queue_size == 2
\* largest max_retries a caller passes
MaxRetriesArg == 1
\* largest delay (seconds) a caller asks for with scheduled_for
MaxSchedDelay == 1
\* number of client connections (session ids) a status is fanned out to
MaxSessions == 2
\* number of client connections while heartbeats go stale and are swept
MaxHubSessions == 1
\* number of monitor threads started (one is started per connect event)
MaxMonitors == 1
\* number of tasks submitted while the hub is observed
MaxHubTasks == 1
\* largest value of stats['messages_sent']
MaxMessages == 3
\* number of times heartbeats are left to go stale (61 s pass)
MaxStaleWaits == 2

(* ----------------------- program constants ---------------------------- *)
\* task_queue = TaskQueue(max_workers=3)
MaxWorkersArg == 3
\* retry_delay = min(2 ** retry_count, 60)
BackoffCap == 60
\* cutoff_time = utcnow() - timedelta(hours=1), in seconds
RetentionSecs == 3600
\* stale_threshold = 60 of _cleanup_stale_connections
stale_threshold == 60

\* Python None for the Optional[datetime] / Optional[int] fields
None == -1
\* a task id that submit_task never returned
UnknownId == 0

TaskIds == 1..MaxTasks

\* request.sid of the client connections
Sessions == 1..MaxSessions

\* the task ids clients subscribe to
HubTaskIds == 1..MaxHubTasks

\* the threads that run _send_task_status: 0 is the thread of the event
\* handler or notify_task_update call in progress, the others are the
\* monitor threads
Handler == 0
Monitors == 1..MaxMonitors
Senders == {Handler} \cup Monitors

\* class TaskStatus(Enum)
TaskStatus == {"pending", "running", "completed", "failed", "cancelled", "retrying"}

\* class TaskPriority(Enum): name |-> value
TaskPriority == [LOW |-> 3, NORMAL |-> 2, HIGH |-> 1, URGENT |-> 0]

\* the arguments callers pass to submit_task
PriorityArgs == {"URGENT", "LOW"}
MaxRetriesArgs == {MaxRetriesArg}
SchedDelayArgs == {None, MaxSchedDelay}

\* how an invocation of a work item fails: it raises, or it overruns
\* task.timeout (asyncio.TimeoutError)
FailKinds == {"exception", "timeout"}

VARIABLES
    now,            \* datetime.utcnow(), in seconds
    task_objs,      \* the BackgroundTask objects, by task_id
    maxsize,        \* PriorityQueue(maxsize=max_queue_size): the queue's capacity
    max_workers,    \* self.max_workers
    pending_queue,  \* self.pending_queue: the task_ids queued
    running_tasks,  \* self.running_tasks: its keys
    task_results,   \* self.task_results: task_id -> TaskResult
    stats,          \* self.stats
    w_pc,           \* worker thread: position in _worker_main/_execute_task
    w_task,         \* worker thread: local `task` (its id), UnknownId if none
    w_linked,       \* worker thread: local `task_result` is the stored object
    w_wake,         \* worker thread: end of its asyncio.sleep(1)
    attempts,       \* history: times each task's work item was invoked
    failures,       \* history: invocations of each task's work item that failed
    retries_arg,    \* history: the max_retries each task was submitted with
    s_pc,           \* submitting thread: position in submit_task
    s_task,         \* submitting thread: local `task` (its id)
    s_ret,          \* submitting thread: outcome of its last call
    next_id,        \* next fresh task id / created_at reading
    c_pc,           \* cancelling thread: position in cancel_task
    c_target,       \* cancelling thread: argument task_id of its current or last call
    c_ret,          \* cancelling thread: return value of its last call
    c_called_on,    \* history: the status of c_target when cancel_task was called
    n_cancels,      \* cancel_task calls made
    pending_cancelled, \* history: tasks cancelled (True) while PENDING, never dispatched
    abandoned,      \* executor threads still running a work item wait_for gave up on, per task
    conn,           \* transport state of each session: "new", "open", "closed"
    connected_clients, \* self.connected_clients: session_id -> client_info
    task_subscribers,  \* self.task_subscribers: task_id -> set of session_ids
    client_heartbeats, \* self.client_heartbeats: session_id -> utcnow() of the last one
    ws_stats,       \* WebSocketManager.stats
    snd,            \* each sending thread: position and locals of _send_task_status
    m_tasks,        \* monitor_tasks: task ids of list(keys()) not yet served
    m_stale,        \* _cleanup_stale_connections: stale_sessions not yet cleaned
    n_monitors,     \* monitor threads started
    pushed,         \* history: status last delivered to each session for each task it is subscribed to
    swept           \* history: sessions a stale sweep found and cleaned up

vars == <<now, task_objs, maxsize, max_workers, pending_queue,
          running_tasks, task_results, stats, w_pc, w_task, w_linked,
          w_wake, attempts, failures, retries_arg, s_pc, s_task, s_ret,
          next_id, c_pc, c_target, c_ret, c_called_on, n_cancels,
          pending_cancelled, abandoned, conn, connected_clients,
          task_subscribers, client_heartbeats, ws_stats, snd, m_tasks,
          m_stale, n_monitors, pushed, swept>>

(* ---------------------------- data types ------------------------------ *)
\* @dataclass TaskResult
TaskResult(status, start_time) ==
    [status |-> status, result |-> "none", error |-> "none",
     start_time |-> start_time, end_time |-> None, execution_time |-> None,
     retry_count |-> 0]

\* @dataclass BackgroundTask; created_at is utcnow() at construction, read at
\* microsecond resolution: successive constructions read increasing values,
\* modelled by the construction sequence number
BackgroundTask(priority, max_retries, scheduled_for, created_at) ==
    [priority |-> priority, max_retries |-> max_retries,
     scheduled_for |-> scheduled_for, created_at |-> created_at]

\* __lt__ with the priority comparison the wrong way round
lt_reversed(a, b) ==
    IF TaskPriority[a.priority] # TaskPriority[b.priority]
    THEN TaskPriority[a.priority] > TaskPriority[b.priority]
    ELSE a.created_at < b.created_at

\* BackgroundTask.__lt__
lt(a, b) ==
    IF TaskPriority[a.priority] # TaskPriority[b.priority]
    THEN TaskPriority[a.priority] < TaskPriority[b.priority]
    ELSE a.created_at < b.created_at

\* PriorityQueue.get on a non-empty queue: an entry no other entry is less than
QueueGet(q) == {t \in q : \A u \in q \ {t} : ~lt(task_objs[u], task_objs[t])}

\* PriorityQueue.full
QueueFull(q) == Cardinality(q) >= maxsize

\* the scheduled_for test one second too lenient
NotYetDue_early(task, t) == task.scheduled_for # None /\ t + 1 < task.scheduled_for

\* the scheduled_for test of _worker_main: the task must wait
NotYetDue(task, t) == task.scheduled_for # None /\ t < task.scheduled_for

Min(a, b) == IF a < b THEN a ELSE b

RECURSIVE Pow2(_)
Pow2(n) == IF n = 0 THEN 1 ELSE 2 * Pow2(n - 1)

\* retry_delay of _retry_task, from the retry_count already incremented
RetryDelay(retry_count) == Min(Pow2(retry_count), BackoffCap)

\* _cleanup_expired_results: the results that stay
CleanupExpired(results, t) ==
    LET expired == {id \in DOMAIN results :
                       /\ results[id].end_time # None
                       /\ results[id].end_time < t - RetentionSecs}
    IN [id \in DOMAIN results \ expired |-> results[id]]

\* no status was delivered to a session
NothingPushed == [t \in HubTaskIds |-> "none"]

(* ------------------------------- Init --------------------------------- *)
\* TaskQueue.__init__, but for the max_workers argument
Constructed ==
    /\ now = 0
    /\ task_objs = [id \in {} |-> 0]
    /\ maxsize \in 1..max_queue_size
    /\ pending_queue = {}
    /\ running_tasks = {}
    /\ task_results = [id \in {} |-> 0]
    /\ stats = [tasks_submitted |-> 0, tasks_completed |-> 0, tasks_failed |-> 0,
                tasks_retried |-> 0]
    /\ w_pc = "loop"
    /\ w_task = UnknownId
    /\ w_linked = FALSE
    /\ w_wake = 0
    /\ attempts = [id \in TaskIds |-> 0]
    /\ failures = [id \in TaskIds |-> 0]
    /\ retries_arg = [id \in TaskIds |-> 0]
    /\ s_pc = "idle"
    /\ s_task = UnknownId
    /\ s_ret = "none"
    /\ next_id = 1
    /\ c_pc = "idle"
    /\ c_target = UnknownId
    /\ c_ret = FALSE
    /\ c_called_on = "none"
    /\ n_cancels = 0
    /\ pending_cancelled = {}
    /\ abandoned = [id \in TaskIds |-> 0]
    /\ conn = [s \in Sessions |-> "new"]
    /\ connected_clients = [s \in {} |-> 0]
    /\ task_subscribers = [t \in {} |-> 0]
    /\ client_heartbeats = [s \in {} |-> 0]
    /\ ws_stats = [total_connections |-> 0, current_connections |-> 0,
                   messages_sent |-> 0]
    /\ snd = [k \in Senders |->
                [pc |-> IF k = Handler THEN "idle" ELSE "off",
                 task_id |-> UnknownId, task_data |-> "none", sids |-> {},
                 failed |-> {}]]
    /\ m_tasks = [m \in Monitors |-> {}]
    /\ m_stale = [m \in Monitors |-> {}]
    /\ n_monitors = 0
    /\ pushed = [s \in Sessions |-> NothingPushed]
    /\ swept = {}

\* the global instance: task_queue = TaskQueue(max_workers=3)
Init == Constructed /\ max_workers = MaxWorkersArg

(* --------------------------- worker thread ---------------------------- *)
\* the local TaskResult of _execute_task is written through to the store
\* only while the store still holds that object
WriteLocal(results, id, linked, written) ==
    IF linked THEN [results EXCEPT ![id] = written] ELSE results

\* a loop that takes the next task without the max_workers test and without
\* waiting for the running task to end
WorkerGet_unlimited ==
    /\ w_pc \in {"loop", "exec"}
    /\ now >= w_wake
    /\ pending_queue # {}
    /\ \E t \in QueueGet(pending_queue) :
          /\ pending_queue' = pending_queue \ {t}
          /\ w_task' = t
    /\ w_pc' = "got"
    /\ UNCHANGED <<now, task_objs, maxsize, max_workers, running_tasks,
                   task_results, stats, w_linked, w_wake, attempts, failures,
                   retries_arg, s_pc, s_task, s_ret, next_id, c_pc, c_target,
                   c_ret, c_called_on, n_cancels, pending_cancelled,
                   abandoned, conn, connected_clients, task_subscribers,
                   client_heartbeats, ws_stats, snd, m_tasks, m_stale,
                   n_monitors, pushed, swept>>

\* _worker_main: the queue test and pending_queue.get()
WorkerGet ==
    /\ w_pc = "loop"
    /\ now >= w_wake
    /\ pending_queue # {}
    /\ Cardinality(running_tasks) < max_workers
    /\ \E t \in QueueGet(pending_queue) :
          /\ pending_queue' = pending_queue \ {t}
          /\ w_task' = t
    /\ w_pc' = "got"
    /\ UNCHANGED <<now, task_objs, maxsize, max_workers, running_tasks,
                   task_results, stats, w_linked, w_wake, attempts, failures,
                   retries_arg, s_pc, s_task, s_ret, next_id, c_pc, c_target,
                   c_ret, c_called_on, n_cancels, pending_cancelled,
                   abandoned, conn, connected_clients, task_subscribers,
                   client_heartbeats, ws_stats, snd, m_tasks, m_stale,
                   n_monitors, pushed, swept>>

\* _worker_main: nothing to start; _cleanup_expired_results and sleep(0.1)
WorkerIdle ==
    /\ w_pc = "loop"
    /\ now >= w_wake
    /\ ~(pending_queue # {} /\ Cardinality(running_tasks) < max_workers)
    /\ task_results' = CleanupExpired(task_results, now)
    /\ UNCHANGED <<now, task_objs, maxsize, max_workers, pending_queue,
                   running_tasks, stats, w_pc, w_task, w_linked, w_wake,
                   attempts, failures, retries_arg, s_pc, s_task, s_ret,
                   next_id, c_pc, c_target, c_ret, c_called_on, n_cancels,
                   pending_cancelled, abandoned, conn, connected_clients,
                   task_subscribers, client_heartbeats, ws_stats, snd,
                   m_tasks, m_stale, n_monitors, pushed, swept>>

\* _worker_main: the task got is not due; put it back (put blocks while the
\* queue is full), sleep(1), continue
WorkerRequeue ==
    /\ w_pc = "got"
    /\ NotYetDue(task_objs[w_task], now)
    /\ ~QueueFull(pending_queue)
    /\ pending_queue' = pending_queue \cup {w_task}
    /\ w_task' = UnknownId
    /\ w_wake' = now + 1
    /\ w_pc' = "loop"
    /\ UNCHANGED <<now, task_objs, maxsize, max_workers, running_tasks,
                   task_results, stats, w_linked, attempts, failures,
                   retries_arg, s_pc, s_task, s_ret, next_id, c_pc, c_target,
                   c_ret, c_called_on, n_cancels, pending_cancelled,
                   abandoned, conn, connected_clients, task_subscribers,
                   client_heartbeats, ws_stats, snd, m_tasks, m_stale,
                   n_monitors, pushed, swept>>

\* _execute_task up to the call of the work item: a new RUNNING TaskResult
\* replaces the stored one
WorkerDispatch ==
    /\ w_pc = "got"
    /\ ~NotYetDue(task_objs[w_task], now)
    /\ running_tasks' = running_tasks \cup {w_task}
    /\ task_results' = [id \in DOMAIN task_results \cup {w_task} |->
                          IF id = w_task THEN TaskResult("running", now)
                          ELSE task_results[id]]
    /\ w_linked' = TRUE
    /\ attempts' = [attempts EXCEPT ![w_task] = @ + 1]
    /\ w_pc' = "exec"
    /\ UNCHANGED <<now, task_objs, maxsize, max_workers, pending_queue, stats,
                   w_task, w_wake, failures, retries_arg, s_pc, s_task, s_ret,
                   next_id, c_pc, c_target, c_ret, c_called_on, n_cancels,
                   pending_cancelled, abandoned, conn, connected_clients,
                   task_subscribers, client_heartbeats, ws_stats, snd,
                   m_tasks, m_stale, n_monitors, pushed, swept>>

\* _execute_task: the work item returns
ExecuteOk ==
    /\ w_pc = "exec"
    /\ task_results' = WriteLocal(task_results, w_task, w_linked,
          [task_results[w_task] EXCEPT
              !.status = "completed", !.result = "value", !.end_time = now,
              !.execution_time = now - task_results[w_task].start_time])
    /\ stats' = [stats EXCEPT !.tasks_completed = @ + 1]
    /\ w_pc' = "finally"
    /\ UNCHANGED <<now, task_objs, maxsize, max_workers, pending_queue,
                   running_tasks, w_task, w_linked, w_wake, attempts,
                   failures, retries_arg, s_pc, s_task, s_ret, next_id, c_pc,
                   c_target, c_ret, c_called_on, n_cancels, pending_cancelled,
                   abandoned, conn, connected_clients, task_subscribers,
                   client_heartbeats, ws_stats, snd, m_tasks, m_stale,
                   n_monitors, pushed, swept>>

\* _execute_task: the work item raises (kind "exception") or wait_for gives up
\* on it (kind "timeout"); both handlers mark the attempt FAILED
ExecuteFail(kind) ==
    /\ w_pc = "exec"
    /\ task_results' = WriteLocal(task_results, w_task, w_linked,
          [task_results[w_task] EXCEPT
              !.status = "failed", !.error = kind, !.end_time = now])
    /\ stats' = [stats EXCEPT !.tasks_failed = @ + 1]
    /\ failures' = [failures EXCEPT ![w_task] = @ + 1]
    /\ w_pc' = "retry"
    /\ UNCHANGED <<now, task_objs, maxsize, max_workers, pending_queue,
                   running_tasks, w_task, w_linked, w_wake, attempts,
                   retries_arg, s_pc, s_task, s_ret, next_id, c_pc, c_target,
                   c_ret, c_called_on, n_cancels, pending_cancelled,
                   abandoned, conn, connected_clients, task_subscribers,
                   client_heartbeats, ws_stats, snd, m_tasks, m_stale,
                   n_monitors, pushed, swept>>

\* _execute_task: wait_for gives up on a synchronous work item that runs in
\* the thread pool; the handler marks the attempt FAILED while the pool
\* thread goes on running the work item
ExecuteTimeoutInPool ==
    /\ w_pc = "exec"
    /\ task_results' = WriteLocal(task_results, w_task, w_linked,
          [task_results[w_task] EXCEPT
              !.status = "failed", !.error = "timeout", !.end_time = now])
    /\ stats' = [stats EXCEPT !.tasks_failed = @ + 1]
    /\ failures' = [failures EXCEPT ![w_task] = @ + 1]
    /\ abandoned' = [abandoned EXCEPT ![w_task] = @ + 1]
    /\ w_pc' = "retry"
    /\ UNCHANGED <<now, task_objs, maxsize, max_workers, pending_queue,
                   running_tasks, w_task, w_linked, w_wake, attempts,
                   retries_arg, s_pc, s_task, s_ret, next_id, c_pc, c_target,
                   c_ret, c_called_on, n_cancels, pending_cancelled, conn,
                   connected_clients, task_subscribers, client_heartbeats,
                   ws_stats, snd, m_tasks, m_stale, n_monitors, pushed,
                   swept>>

\* a pool thread comes to the end of a work item wait_for gave up on
PoolThreadEnds(id) ==
    /\ abandoned[id] > 0
    /\ abandoned' = [abandoned EXCEPT ![id] = @ - 1]
    /\ UNCHANGED <<now, task_objs, maxsize, max_workers, pending_queue,
                   running_tasks, task_results, stats, w_pc, w_task, w_linked,
                   w_wake, attempts, failures, retries_arg, s_pc, s_task,
                   s_ret, next_id, c_pc, c_target, c_ret, c_called_on,
                   n_cancels, pending_cancelled, conn, connected_clients,
                   task_subscribers, client_heartbeats, ws_stats, snd,
                   m_tasks, m_stale, n_monitors, pushed, swept>>

\* _retry_task up to pending_queue.put: retries left, so the stored
\* TaskResult becomes RETRYING and the task gets a later scheduled_for
RetryTask ==
    /\ w_pc = "retry"
    /\ task_objs[w_task].max_retries > 0
    /\ LET retry_count == task_results[w_task].retry_count + 1 IN
          /\ task_results' = [task_results EXCEPT
                                 ![w_task].retry_count = retry_count,
                                 ![w_task].status = "retrying"]
          /\ task_objs' = [task_objs EXCEPT
                              ![w_task].max_retries = @ - 1,
                              ![w_task].scheduled_for = now + RetryDelay(retry_count)]
    /\ w_pc' = "retry_put"
    /\ UNCHANGED <<now, maxsize, max_workers, pending_queue, running_tasks,
                   stats, w_task, w_linked, w_wake, attempts, failures,
                   retries_arg, s_pc, s_task, s_ret, next_id, c_pc, c_target,
                   c_ret, c_called_on, n_cancels, pending_cancelled,
                   abandoned, conn, connected_clients, task_subscribers,
                   client_heartbeats, ws_stats, snd, m_tasks, m_stale,
                   n_monitors, pushed, swept>>

\* _retry_task: no retries left; the FAILED result stays
RetryExhausted ==
    /\ w_pc = "retry"
    /\ task_objs[w_task].max_retries <= 0
    /\ w_pc' = "finally"
    /\ UNCHANGED <<now, task_objs, maxsize, max_workers, pending_queue,
                   running_tasks, task_results, stats, w_task, w_linked,
                   w_wake, attempts, failures, retries_arg, s_pc, s_task,
                   s_ret, next_id, c_pc, c_target, c_ret, c_called_on,
                   n_cancels, pending_cancelled, abandoned, conn,
                   connected_clients, task_subscribers, client_heartbeats,
                   ws_stats, snd, m_tasks, m_stale, n_monitors, pushed,
                   swept>>

\* _retry_task: pending_queue.put(task) (blocks while the queue is full)
RetryPut ==
    /\ w_pc = "retry_put"
    /\ ~QueueFull(pending_queue)
    /\ pending_queue' = pending_queue \cup {w_task}
    /\ stats' = [stats EXCEPT !.tasks_retried = @ + 1]
    /\ w_pc' = "finally"
    /\ UNCHANGED <<now, task_objs, maxsize, max_workers, running_tasks,
                   task_results, w_task, w_linked, w_wake, attempts, failures,
                   retries_arg, s_pc, s_task, s_ret, next_id, c_pc, c_target,
                   c_ret, c_called_on, n_cancels, pending_cancelled,
                   abandoned, conn, connected_clients, task_subscribers,
                   client_heartbeats, ws_stats, snd, m_tasks, m_stale,
                   n_monitors, pushed, swept>>

\* _execute_task's finally, then _worker_main's _cleanup_expired_results and
\* sleep(0.1)
WorkerFinally ==
    /\ w_pc = "finally"
    /\ running_tasks' = running_tasks \ {w_task}
    /\ task_results' = CleanupExpired(task_results, now)
    /\ w_task' = UnknownId
    /\ w_linked' = FALSE
    /\ w_pc' = "loop"
    /\ UNCHANGED <<now, task_objs, maxsize, max_workers, pending_queue, stats,
                   w_wake, attempts, failures, retries_arg, s_pc, s_task,
                   s_ret, next_id, c_pc, c_target, c_ret, c_called_on,
                   n_cancels, pending_cancelled, abandoned, conn,
                   connected_clients, task_subscribers, client_heartbeats,
                   ws_stats, snd, m_tasks, m_stale, n_monitors, pushed,
                   swept>>

(* ------------------------- submitting thread -------------------------- *)
\* a rejection that counts the task as submitted all the same
SubmitFull_counts ==
    /\ s_pc = "idle"
    /\ QueueFull(pending_queue)
    /\ stats' = [stats EXCEPT !.tasks_submitted = @ + 1]
    /\ s_ret' = "full"
    /\ UNCHANGED <<now, task_objs, maxsize, max_workers, pending_queue,
                   running_tasks, task_results, w_pc, w_task, w_linked,
                   w_wake, attempts, failures, retries_arg, s_pc, s_task,
                   next_id, c_pc, c_target, c_ret, c_called_on, n_cancels,
                   pending_cancelled, abandoned, conn, connected_clients,
                   task_subscribers, client_heartbeats, ws_stats, snd,
                   m_tasks, m_stale, n_monitors, pushed, swept>>

\* submit_task: pending_queue.full(), so "Task queue is full" is raised
SubmitFull ==
    /\ s_pc = "idle"
    /\ QueueFull(pending_queue)
    /\ s_ret' = "full"
    /\ UNCHANGED <<now, task_objs, maxsize, max_workers, pending_queue,
                   running_tasks, task_results, stats, w_pc, w_task, w_linked,
                   w_wake, attempts, failures, retries_arg, s_pc, s_task,
                   next_id, c_pc, c_target, c_ret, c_called_on, n_cancels,
                   pending_cancelled, abandoned, conn, connected_clients,
                   task_subscribers, client_heartbeats, ws_stats, snd,
                   m_tasks, m_stale, n_monitors, pushed, swept>>

\* submit_task: the queue is not full; the task id and the BackgroundTask
SubmitCreate(priority, max_retries, delay) ==
    /\ s_pc = "idle"
    /\ ~QueueFull(pending_queue)
    /\ next_id <= MaxTasks
    /\ task_objs' = [id \in DOMAIN task_objs \cup {next_id} |->
                       IF id = next_id
                       THEN BackgroundTask(priority, max_retries,
                                IF delay = None THEN None ELSE now + delay, next_id)
                       ELSE task_objs[id]]
    /\ retries_arg' = [retries_arg EXCEPT ![next_id] = max_retries]
    /\ s_task' = next_id
    /\ next_id' = next_id + 1
    /\ s_pc' = "put"
    /\ UNCHANGED <<now, maxsize, max_workers, pending_queue, running_tasks,
                   task_results, stats, w_pc, w_task, w_linked, w_wake,
                   attempts, failures, s_ret, c_pc, c_target, c_ret,
                   c_called_on, n_cancels, pending_cancelled, abandoned, conn,
                   connected_clients, task_subscribers, client_heartbeats,
                   ws_stats, snd, m_tasks, m_stale, n_monitors, pushed,
                   swept>>

\* submit_task: pending_queue.put(task) (blocks while the queue is full) and
\* the tasks_submitted count
SubmitPut ==
    /\ s_pc = "put"
    /\ ~QueueFull(pending_queue)
    /\ pending_queue' = pending_queue \cup {s_task}
    /\ stats' = [stats EXCEPT !.tasks_submitted = @ + 1]
    /\ s_pc' = "store"
    /\ UNCHANGED <<now, task_objs, maxsize, max_workers, running_tasks,
                   task_results, w_pc, w_task, w_linked, w_wake, attempts,
                   failures, retries_arg, s_task, s_ret, next_id, c_pc,
                   c_target, c_ret, c_called_on, n_cancels, pending_cancelled,
                   abandoned, conn, connected_clients, task_subscribers,
                   client_heartbeats, ws_stats, snd, m_tasks, m_stale,
                   n_monitors, pushed, swept>>

\* submit_task: the initial PENDING TaskResult is stored and the id returned;
\* a TaskResult the worker stored for this id meanwhile is replaced
SubmitStore ==
    /\ s_pc = "store"
    /\ task_results' = [id \in DOMAIN task_results \cup {s_task} |->
                          IF id = s_task THEN TaskResult("pending", None)
                          ELSE task_results[id]]
    /\ w_linked' = IF w_task = s_task THEN FALSE ELSE w_linked
    /\ s_ret' = "ok"
    /\ s_pc' = "idle"
    /\ UNCHANGED <<now, task_objs, maxsize, max_workers, pending_queue,
                   running_tasks, stats, w_pc, w_task, w_wake, attempts,
                   failures, retries_arg, s_task, next_id, c_pc, c_target,
                   c_ret, c_called_on, n_cancels, pending_cancelled,
                   abandoned, conn, connected_clients, task_subscribers,
                   client_heartbeats, ws_stats, snd, m_tasks, m_stale,
                   n_monitors, pushed, swept>>

(* ------------------------- cancelling thread -------------------------- *)
\* the task ids submit_task has returned to its caller
Returned == {id \in 1..(next_id - 1) : ~(s_pc # "idle" /\ s_task = id)}

\* cancel_task(task_id) is called
CancelCall(task_id) ==
    /\ c_pc = "idle"
    /\ n_cancels < MaxCancels
    /\ c_target' = task_id
    /\ c_called_on' = IF task_id \in DOMAIN task_results
                      THEN task_results[task_id].status ELSE "absent"
    /\ n_cancels' = n_cancels + 1
    /\ c_pc' = "check"
    /\ UNCHANGED <<now, task_objs, maxsize, max_workers, pending_queue,
                   running_tasks, task_results, stats, w_pc, w_task, w_linked,
                   w_wake, attempts, failures, retries_arg, s_pc, s_task,
                   s_ret, next_id, c_ret, pending_cancelled, abandoned, conn,
                   connected_clients, task_subscribers, client_heartbeats,
                   ws_stats, snd, m_tasks, m_stale, n_monitors, pushed,
                   swept>>

\* cancel_task: the task is in running_tasks, return False
CancelRunning ==
    /\ c_pc = "check"
    /\ c_target \in running_tasks
    /\ c_ret' = FALSE
    /\ c_called_on' = "none"
    /\ c_pc' = "idle"
    /\ UNCHANGED <<now, task_objs, maxsize, max_workers, pending_queue,
                   running_tasks, task_results, stats, w_pc, w_task, w_linked,
                   w_wake, attempts, failures, retries_arg, s_pc, s_task,
                   s_ret, next_id, c_target, n_cancels, pending_cancelled,
                   abandoned, conn, connected_clients, task_subscribers,
                   client_heartbeats, ws_stats, snd, m_tasks, m_stale,
                   n_monitors, pushed, swept>>

\* cancel_task: the task is not in running_tasks; go on to the result test
CancelCheck ==
    /\ c_pc = "check"
    /\ c_target \notin running_tasks
    /\ c_pc' = "mark"
    /\ UNCHANGED <<now, task_objs, maxsize, max_workers, pending_queue,
                   running_tasks, task_results, stats, w_pc, w_task, w_linked,
                   w_wake, attempts, failures, retries_arg, s_pc, s_task,
                   s_ret, next_id, c_target, c_ret, c_called_on, n_cancels,
                   pending_cancelled, abandoned, conn, connected_clients,
                   task_subscribers, client_heartbeats, ws_stats, snd,
                   m_tasks, m_stale, n_monitors, pushed, swept>>

\* cancel_task: a stored TaskResult is set CANCELLED and True returned,
\* whatever its status
CancelMark ==
    /\ c_pc = "mark"
    /\ c_target \in DOMAIN task_results
    /\ task_results' = [task_results EXCEPT ![c_target].status = "cancelled"]
    /\ pending_cancelled' =
          IF /\ c_called_on = "pending"
             /\ task_results[c_target].status = "pending"
             /\ c_target \in pending_queue
             /\ attempts[c_target] = 0
          THEN pending_cancelled \cup {c_target}
          ELSE pending_cancelled
    /\ c_ret' = TRUE
    /\ c_called_on' = "none"
    /\ c_pc' = "idle"
    /\ UNCHANGED <<now, task_objs, maxsize, max_workers, pending_queue,
                   running_tasks, stats, w_pc, w_task, w_linked, w_wake,
                   attempts, failures, retries_arg, s_pc, s_task, s_ret,
                   next_id, c_target, n_cancels, abandoned, conn,
                   connected_clients, task_subscribers, client_heartbeats,
                   ws_stats, snd, m_tasks, m_stale, n_monitors, pushed,
                   swept>>

\* cancel_task: no TaskResult stored for the id, return False
CancelUnknown ==
    /\ c_pc = "mark"
    /\ c_target \notin DOMAIN task_results
    /\ c_ret' = FALSE
    /\ c_called_on' = "none"
    /\ c_pc' = "idle"
    /\ UNCHANGED <<now, task_objs, maxsize, max_workers, pending_queue,
                   running_tasks, task_results, stats, w_pc, w_task, w_linked,
                   w_wake, attempts, failures, retries_arg, s_pc, s_task,
                   s_ret, next_id, c_target, n_cancels, pending_cancelled,
                   abandoned, conn, connected_clients, task_subscribers,
                   client_heartbeats, ws_stats, snd, m_tasks, m_stale,
                   n_monitors, pushed, swept>>

(* ------------------------------- time --------------------------------- *)
\* a task or the sleeping worker waits for a later reading of utcnow()
Waiting ==
    \/ \E t \in pending_queue : NotYetDue(task_objs[t], now)
    \/ w_task # UnknownId /\ NotYetDue(task_objs[w_task], now)
    \/ now < w_wake

\* one second passes
Tick ==
    /\ Waiting
    /\ now' = now + 1
    /\ UNCHANGED <<task_objs, maxsize, max_workers, pending_queue,
                   running_tasks, task_results, stats, w_pc, w_task, w_linked,
                   w_wake, attempts, failures, retries_arg, s_pc, s_task,
                   s_ret, next_id, c_pc, c_target, c_ret, c_called_on,
                   n_cancels, pending_cancelled, abandoned, conn,
                   connected_clients, task_subscribers, client_heartbeats,
                   ws_stats, snd, m_tasks, m_stale, n_monitors, pushed,
                   swept>>

\* the running work item takes longer than the retention window of the
\* results (its timeout argument allows it)
WorkRunsLong ==
    /\ w_pc = "exec"
    /\ now <= RetentionSecs
    /\ now' = now + RetentionSecs + 1
    /\ UNCHANGED <<task_objs, maxsize, max_workers, pending_queue,
                   running_tasks, task_results, stats, w_pc, w_task, w_linked,
                   w_wake, attempts, failures, retries_arg, s_pc, s_task,
                   s_ret, next_id, c_pc, c_target, c_ret, c_called_on,
                   n_cancels, pending_cancelled, abandoned, conn,
                   connected_clients, task_subscribers, client_heartbeats,
                   ws_stats, snd, m_tasks, m_stale, n_monitors, pushed,
                   swept>>

(* ------------------------- the specification -------------------------- *)
Worker ==
    \/ WorkerGet
    \/ WorkerIdle
    \/ WorkerRequeue
    \/ WorkerDispatch
    \/ ExecuteOk
    \/ \E kind \in FailKinds : ExecuteFail(kind)
    \/ RetryTask
    \/ RetryExhausted
    \/ RetryPut
    \/ WorkerFinally

Submitter ==
    \/ SubmitFull
    \/ \E priority \in PriorityArgs, max_retries \in MaxRetriesArgs,
          delay \in SchedDelayArgs : SubmitCreate(priority, max_retries, delay)
    \/ SubmitPut
    \/ SubmitStore

Canceller ==
    \/ \E task_id \in Returned \cup {UnknownId} : CancelCall(task_id)
    \/ CancelRunning
    \/ CancelCheck
    \/ CancelMark
    \/ CancelUnknown

Next == Worker \/ Submitter \/ Canceller \/ Tick

Spec == Init /\ [][Next]_vars

\* the worker thread keeps running, calls in progress return unless they
\* block, and time passes while something waits for it
FairSpec ==
    /\ Init /\ [][Next]_vars
    /\ WF_vars(Worker)
    /\ WF_vars(SubmitPut \/ SubmitStore)
    /\ WF_vars(CancelRunning \/ CancelCheck \/ CancelMark \/ CancelUnknown)
    /\ WF_vars(Tick)

\* a TaskQueue constructed with any max_workers, its worker thread, a
\* submitting thread and its executor
PoolInit ==
    /\ Constructed
    /\ max_workers \in 1..MaxWorkersArg
    /\ maxsize = max_queue_size

\* submit_task calls that leave scheduled_for unset
PoolSubmitter ==
    \/ SubmitFull
    \/ \E priority \in PriorityArgs : SubmitCreate(priority, MaxRetriesArg, None)
    \/ SubmitPut
    \/ SubmitStore

PoolNext ==
    \/ Worker
    \/ ExecuteTimeoutInPool
    \/ \E id \in TaskIds : PoolThreadEnds(id)
    \/ PoolSubmitter
    \/ Tick
    \/ WorkRunsLong

PoolSpec == PoolInit /\ [][PoolNext]_vars

(* ------------------------------ the hub ------------------------------- *)
\* dict.pop(key, default): the mapping without the key
Pop(f, key) == [x \in DOMAIN f \ {key} |-> f[x]]

\* dict[key] = value
Store(f, key, value) ==
    [x \in DOMAIN f \cup {key} |-> IF x = key THEN value ELSE f[x]]

\* TaskQueue.get_task_status, as far as the hub looks at it: the status of
\* the stored TaskResult, "absent" for None
get_task_status(task_id) ==
    IF task_id \in DOMAIN task_results THEN task_results[task_id].status
    ELSE "absent"

\* _subscribe_task: task_subscribers afterwards
subscribe_task(subs, session_id, task_id) ==
    Store(subs, task_id,
          (IF task_id \in DOMAIN subs THEN subs[task_id] ELSE {}) \cup {session_id})

\* _subscribe_task: connected_clients afterwards
client_subscribed(clients, session_id, task_id) ==
    IF session_id \in DOMAIN clients
    THEN [clients EXCEPT ![session_id].subscribed_tasks = @ \cup {task_id}]
    ELSE clients

\* _unsubscribe_task called for each task of task_ids: task_subscribers
\* afterwards; a set left empty is deleted
unsubscribe_tasks(subs, session_id, task_ids) ==
    LET emptied == {t \in DOMAIN subs \cap task_ids : subs[t] \ {session_id} = {}}
    IN [t \in DOMAIN subs \ emptied |->
           IF t \in task_ids THEN subs[t] \ {session_id} ELSE subs[t]]

\* _unsubscribe_task: connected_clients afterwards
client_unsubscribed(clients, session_id, task_id) ==
    IF session_id \in DOMAIN clients
    THEN [clients EXCEPT ![session_id].subscribed_tasks = @ \ {task_id}]
    ELSE clients

\* client_info.get('subscribed_tasks', set()) of a popped client_info
subscribed_tasks(clients, session_id) ==
    IF session_id \in DOMAIN clients THEN clients[session_id].subscribed_tasks
    ELSE {}

\* a thread that is not in _send_task_status
Sender(pc) ==
    [pc |-> pc, task_id |-> UnknownId, task_data |-> "none", sids |-> {},
     failed |-> {}]

\* _send_task_status up to its loop: the status is read and, when there is
\* a TaskResult and the task has a subscriber set, the set is copied; the
\* thread goes on to emit, or to `done` when there is nothing to send
SendTaskStatus(task_id, subs, done) ==
    LET sids == IF get_task_status(task_id) # "absent" /\ task_id \in DOMAIN subs
                THEN subs[task_id] ELSE {}
    IN IF sids = {} THEN Sender(done)
       ELSE [pc |-> "emit", task_id |-> task_id,
             task_data |-> get_task_status(task_id), sids |-> sids,
             failed |-> {}]

\* where a sending thread goes on after _send_task_status
AfterSend(k) == IF k = Handler THEN "idle" ELSE "tasks"

\* handle_connect, and start_task_monitor which starts a monitor thread;
\* the session ids are numbered in the order of the connections
Connect(session_id) ==
    /\ conn[session_id] = "new"
    /\ session_id = ws_stats.total_connections + 1
    /\ conn' = [conn EXCEPT ![session_id] = "open"]
    /\ connected_clients' =
          Store(connected_clients, session_id, [subscribed_tasks |-> {}])
    /\ client_heartbeats' = Store(client_heartbeats, session_id, now)
    /\ ws_stats' = [ws_stats EXCEPT !.total_connections = @ + 1,
                                    !.current_connections = @ + 1]
    /\ IF n_monitors < MaxMonitors
       THEN /\ n_monitors' = n_monitors + 1
            /\ snd' = [snd EXCEPT ![n_monitors + 1].pc = "round"]
       ELSE /\ n_monitors' = n_monitors
            /\ snd' = snd
    /\ UNCHANGED <<now, task_objs, maxsize, max_workers, pending_queue,
                   running_tasks, task_results, stats, w_pc, w_task, w_linked,
                   w_wake, attempts, failures, retries_arg, s_pc, s_task,
                   s_ret, next_id, c_pc, c_target, c_ret, c_called_on,
                   n_cancels, pending_cancelled, abandoned, task_subscribers,
                   m_tasks, m_stale, pushed, swept>>

\* handle_disconnect: the transport of the session is closed
Disconnect(session_id) ==
    /\ conn[session_id] = "open"
    /\ conn' = [conn EXCEPT ![session_id] = "closed"]
    /\ connected_clients' = Pop(connected_clients, session_id)
    /\ task_subscribers' =
          unsubscribe_tasks(task_subscribers, session_id,
                            subscribed_tasks(connected_clients, session_id))
    /\ client_heartbeats' = Pop(client_heartbeats, session_id)
    /\ ws_stats' = [ws_stats EXCEPT !.current_connections = @ - 1]
    /\ pushed' = [pushed EXCEPT ![session_id] = NothingPushed]
    /\ UNCHANGED <<now, task_objs, maxsize, max_workers, pending_queue,
                   running_tasks, task_results, stats, w_pc, w_task, w_linked,
                   w_wake, attempts, failures, retries_arg, s_pc, s_task,
                   s_ret, next_id, c_pc, c_target, c_ret, c_called_on,
                   n_cancels, pending_cancelled, abandoned, snd, m_tasks,
                   m_stale, n_monitors, swept>>

\* handle_subscribe_task: _subscribe_task, then _send_task_status(task_id)
\* up to its loop
SubscribeTask(session_id, task_id) ==
    /\ conn[session_id] = "open"
    /\ snd[Handler].pc = "idle"
    /\ task_subscribers' = subscribe_task(task_subscribers, session_id, task_id)
    /\ connected_clients' = client_subscribed(connected_clients, session_id, task_id)
    /\ snd' = [snd EXCEPT ![Handler] =
                  SendTaskStatus(task_id, task_subscribers', "idle")]
    /\ UNCHANGED <<now, task_objs, maxsize, max_workers, pending_queue,
                   running_tasks, task_results, stats, w_pc, w_task, w_linked,
                   w_wake, attempts, failures, retries_arg, s_pc, s_task,
                   s_ret, next_id, c_pc, c_target, c_ret, c_called_on,
                   n_cancels, pending_cancelled, abandoned, conn,
                   client_heartbeats, ws_stats, m_tasks, m_stale, n_monitors,
                   pushed, swept>>

\* handle_unsubscribe_task
UnsubscribeTask(session_id, task_id) ==
    /\ conn[session_id] = "open"
    /\ task_subscribers' = unsubscribe_tasks(task_subscribers, session_id, {task_id})
    /\ connected_clients' = client_unsubscribed(connected_clients, session_id, task_id)
    /\ pushed' = [pushed EXCEPT ![session_id][task_id] = "none"]
    /\ UNCHANGED <<now, task_objs, maxsize, max_workers, pending_queue,
                   running_tasks, task_results, stats, w_pc, w_task, w_linked,
                   w_wake, attempts, failures, retries_arg, s_pc, s_task,
                   s_ret, next_id, c_pc, c_target, c_ret, c_called_on,
                   n_cancels, pending_cancelled, abandoned, conn,
                   client_heartbeats, ws_stats, snd, m_tasks, m_stale,
                   n_monitors, swept>>

\* handle_heartbeat
Heartbeat(session_id) ==
    /\ conn[session_id] = "open"
    /\ client_heartbeats' = Store(client_heartbeats, session_id, now)
    /\ UNCHANGED <<now, task_objs, maxsize, max_workers, pending_queue,
                   running_tasks, task_results, stats, w_pc, w_task, w_linked,
                   w_wake, attempts, failures, retries_arg, s_pc, s_task,
                   s_ret, next_id, c_pc, c_target, c_ret, c_called_on,
                   n_cancels, pending_cancelled, abandoned, conn,
                   connected_clients, task_subscribers, ws_stats, snd,
                   m_tasks, m_stale, n_monitors, pushed, swept>>

\* notify_task_update: when the task has a subscriber set,
\* _send_task_status(task_id) up to its loop
NotifyTaskUpdate(task_id) ==
    /\ snd[Handler].pc = "idle"
    /\ task_id \in DOMAIN task_subscribers
    /\ snd' = [snd EXCEPT ![Handler] =
                  SendTaskStatus(task_id, task_subscribers, "idle")]
    /\ UNCHANGED <<now, task_objs, maxsize, max_workers, pending_queue,
                   running_tasks, task_results, stats, w_pc, w_task, w_linked,
                   w_wake, attempts, failures, retries_arg, s_pc, s_task,
                   s_ret, next_id, c_pc, c_target, c_ret, c_called_on,
                   n_cancels, pending_cancelled, abandoned, conn,
                   connected_clients, task_subscribers, client_heartbeats,
                   ws_stats, m_tasks, m_stale, n_monitors, pushed, swept>>

\* _send_task_status, one turn of its loop: socketio.emit to session_id
\* succeeds and the message is counted
EmitOk(k, session_id) ==
    /\ snd[k].pc = "emit"
    /\ session_id \in snd[k].sids
    /\ ws_stats.messages_sent < MaxMessages
    /\ ws_stats' = [ws_stats EXCEPT !.messages_sent = @ + 1]
    /\ pushed' = [pushed EXCEPT ![session_id][snd[k].task_id] = snd[k].task_data]
    /\ snd' = [snd EXCEPT ![k] =
                  IF snd[k].sids = {session_id} THEN Sender(AfterSend(k))
                  ELSE [@ EXCEPT !.sids = @ \ {session_id}]]
    /\ UNCHANGED <<now, task_objs, maxsize, max_workers, pending_queue,
                   running_tasks, task_results, stats, w_pc, w_task, w_linked,
                   w_wake, attempts, failures, retries_arg, s_pc, s_task,
                   s_ret, next_id, c_pc, c_target, c_ret, c_called_on,
                   n_cancels, pending_cancelled, abandoned, conn,
                   connected_clients, task_subscribers, client_heartbeats,
                   m_tasks, m_stale, n_monitors, swept>>

\* a failed emit that gives up the rest of the loop
EmitFail_aborts(k, session_id) ==
    /\ snd[k].pc = "emit"
    /\ session_id \in snd[k].sids
    /\ task_subscribers' =
          IF snd[k].task_id \in DOMAIN task_subscribers
          THEN [task_subscribers EXCEPT ![snd[k].task_id] = @ \ {session_id}]
          ELSE task_subscribers
    /\ snd' = [snd EXCEPT ![k] = Sender(AfterSend(k))]
    /\ pushed' = [pushed EXCEPT ![session_id][snd[k].task_id] = "none"]
    /\ UNCHANGED <<now, task_objs, maxsize, max_workers, pending_queue,
                   running_tasks, task_results, stats, w_pc, w_task, w_linked,
                   w_wake, attempts, failures, retries_arg, s_pc, s_task,
                   s_ret, next_id, c_pc, c_target, c_ret, c_called_on,
                   n_cancels, pending_cancelled, abandoned, conn,
                   connected_clients, client_heartbeats, ws_stats, m_tasks,
                   m_stale, n_monitors, swept>>

\* _send_task_status, one turn of its loop: socketio.emit to session_id
\* raises; the session is discarded from the task's subscriber set and the
\* loop goes on, unless the set is gone (KeyError), which ends the call in
\* its outer handler
EmitFail(k, session_id) ==
    /\ snd[k].pc = "emit"
    /\ session_id \in snd[k].sids
    /\ LET task_id == snd[k].task_id
           rest == IF task_id \in DOMAIN task_subscribers
                   THEN snd[k].sids \ {session_id} ELSE {}
       IN /\ task_subscribers' =
                IF task_id \in DOMAIN task_subscribers
                THEN [task_subscribers EXCEPT ![task_id] = @ \ {session_id}]
                ELSE task_subscribers
          /\ snd' = [snd EXCEPT ![k] =
                        IF rest = {} THEN Sender(AfterSend(k))
                        ELSE [@ EXCEPT !.sids = rest,
                                       !.failed = @ \cup {session_id}]]
          /\ pushed' = [pushed EXCEPT ![session_id][task_id] = "none"]
    /\ UNCHANGED <<now, task_objs, maxsize, max_workers, pending_queue,
                   running_tasks, task_results, stats, w_pc, w_task, w_linked,
                   w_wake, attempts, failures, retries_arg, s_pc, s_task,
                   s_ret, next_id, c_pc, c_target, c_ret, c_called_on,
                   n_cancels, pending_cancelled, abandoned, conn,
                   connected_clients, client_heartbeats, ws_stats, m_tasks,
                   m_stale, n_monitors, swept>>

\* monitor_tasks: list(self.task_subscribers.keys())
MonitorList(m) ==
    /\ snd[m].pc = "round"
    /\ m_tasks' = [m_tasks EXCEPT ![m] = DOMAIN task_subscribers]
    /\ snd' = [snd EXCEPT ![m].pc = "tasks"]
    /\ UNCHANGED <<now, task_objs, maxsize, max_workers, pending_queue,
                   running_tasks, task_results, stats, w_pc, w_task, w_linked,
                   w_wake, attempts, failures, retries_arg, s_pc, s_task,
                   s_ret, next_id, c_pc, c_target, c_ret, c_called_on,
                   n_cancels, pending_cancelled, abandoned, conn,
                   connected_clients, task_subscribers, client_heartbeats,
                   ws_stats, m_stale, n_monitors, pushed, swept>>

\* monitor_tasks: _send_task_status(task_id) up to its loop, for the next
\* task of the list
MonitorSend(m, task_id) ==
    /\ snd[m].pc = "tasks"
    /\ task_id \in m_tasks[m]
    /\ m_tasks' = [m_tasks EXCEPT ![m] = @ \ {task_id}]
    /\ snd' = [snd EXCEPT ![m] = SendTaskStatus(task_id, task_subscribers, "tasks")]
    /\ UNCHANGED <<now, task_objs, maxsize, max_workers, pending_queue,
                   running_tasks, task_results, stats, w_pc, w_task, w_linked,
                   w_wake, attempts, failures, retries_arg, s_pc, s_task,
                   s_ret, next_id, c_pc, c_target, c_ret, c_called_on,
                   n_cancels, pending_cancelled, abandoned, conn,
                   connected_clients, task_subscribers, client_heartbeats,
                   ws_stats, m_stale, n_monitors, pushed, swept>>

\* the sessions _cleanup_stale_connections finds stale
stale_sessions(t) ==
    {s \in DOMAIN client_heartbeats : t - client_heartbeats[s] > stale_threshold}

\* _cleanup_stale_connections: the stale sessions are collected; with none,
\* the monitor sleeps and starts its next round
MonitorSweep(m) ==
    /\ snd[m].pc = "tasks"
    /\ m_tasks[m] = {}
    /\ m_stale' = [m_stale EXCEPT ![m] = stale_sessions(now)]
    /\ snd' = [snd EXCEPT ![m].pc =
                  IF stale_sessions(now) = {} THEN "round" ELSE "clean"]
    /\ UNCHANGED <<now, task_objs, maxsize, max_workers, pending_queue,
                   running_tasks, task_results, stats, w_pc, w_task, w_linked,
                   w_wake, attempts, failures, retries_arg, s_pc, s_task,
                   s_ret, next_id, c_pc, c_target, c_ret, c_called_on,
                   n_cancels, pending_cancelled, abandoned, conn,
                   connected_clients, task_subscribers, client_heartbeats,
                   ws_stats, m_tasks, n_monitors, pushed, swept>>

\* _cleanup_stale_connections: one stale session is cleaned up; after the
\* last one the monitor sleeps and starts its next round
MonitorClean(m, session_id) ==
    /\ snd[m].pc = "clean"
    /\ session_id \in m_stale[m]
    /\ connected_clients' = Pop(connected_clients, session_id)
    /\ task_subscribers' =
          unsubscribe_tasks(task_subscribers, session_id,
                            subscribed_tasks(connected_clients, session_id))
    /\ client_heartbeats' = Pop(client_heartbeats, session_id)
    /\ ws_stats' = [ws_stats EXCEPT !.current_connections = @ - 1]
    /\ pushed' = [pushed EXCEPT ![session_id] = NothingPushed]
    /\ swept' = swept \cup {session_id}
    /\ m_stale' = [m_stale EXCEPT ![m] = @ \ {session_id}]
    /\ snd' = [snd EXCEPT ![m].pc =
                  IF m_stale[m] = {session_id} THEN "round" ELSE "clean"]
    /\ UNCHANGED <<now, task_objs, maxsize, max_workers, pending_queue,
                   running_tasks, task_results, stats, w_pc, w_task, w_linked,
                   w_wake, attempts, failures, retries_arg, s_pc, s_task,
                   s_ret, next_id, c_pc, c_target, c_ret, c_called_on,
                   n_cancels, pending_cancelled, abandoned, conn, m_tasks,
                   n_monitors>>

\* more than stale_threshold seconds pass
HeartbeatsAge ==
    /\ now < MaxStaleWaits * (stale_threshold + 1)
    /\ DOMAIN client_heartbeats # {}
    /\ now' = now + stale_threshold + 1
    /\ UNCHANGED <<task_objs, maxsize, max_workers, pending_queue,
                   running_tasks, task_results, stats, w_pc, w_task, w_linked,
                   w_wake, attempts, failures, retries_arg, s_pc, s_task,
                   s_ret, next_id, c_pc, c_target, c_ret, c_called_on,
                   n_cancels, pending_cancelled, abandoned, conn,
                   connected_clients, task_subscribers, client_heartbeats,
                   ws_stats, snd, m_tasks, m_stale, n_monitors, pushed,
                   swept>>

\* the one task submitted while the hub is observed: no retry, no delay
HubSubmit ==
    /\ next_id <= MaxHubTasks
    /\ SubmitCreate("NORMAL", 0, None)

\* the scheduler as the hub sees it at work
HubScheduler ==
    \/ HubSubmit
    \/ SubmitPut
    \/ SubmitStore
    \/ WorkerGet
    \/ WorkerIdle
    \/ WorkerDispatch
    \/ ExecuteOk
    \/ ExecuteFail("exception")
    \/ RetryExhausted
    \/ WorkerFinally

\* the events a client sends
SessionEvents(session_id) ==
    \/ Connect(session_id)
    \/ Disconnect(session_id)
    \/ Heartbeat(session_id)
    \/ \E task_id \in HubTaskIds :
          \/ SubscribeTask(session_id, task_id)
          \/ UnsubscribeTask(session_id, task_id)

\* a thread in the loop of _send_task_status
Emits ==
    \E k \in Senders, session_id \in Sessions :
        EmitOk(k, session_id) \/ EmitFail(k, session_id)

\* a monitor thread, from one sleep to the next
MonitorRound(m) ==
    \/ MonitorList(m)
    \/ \E task_id \in HubTaskIds : MonitorSend(m, task_id)
    \/ MonitorSweep(m)
    \/ \E session_id \in Sessions : MonitorClean(m, session_id)

HubInit == Init /\ maxsize = max_queue_size

\* the hub with its monitor threads and liveness sweeps
HubNext ==
    \/ HubScheduler
    \/ \E session_id \in 1..MaxHubSessions : SessionEvents(session_id)
    \/ \E task_id \in HubTaskIds : NotifyTaskUpdate(task_id)
    \/ Emits
    \/ \E m \in Monitors : MonitorRound(m)
    \/ HeartbeatsAge

HubSpec == HubInit /\ [][HubNext]_vars

\* the fan-out of a task's status to several connections that subscribe and
\* unsubscribe, while no heartbeat goes stale
FanOutNext ==
    \/ HubScheduler
    \/ \E session_id \in Sessions :
          \/ Connect(session_id)
          \/ \E task_id \in HubTaskIds :
                \/ SubscribeTask(session_id, task_id)
                \/ UnsubscribeTask(session_id, task_id)
    \/ \E task_id \in HubTaskIds : NotifyTaskUpdate(task_id)
    \/ Emits
    \/ \E m \in Monitors :
          \/ MonitorList(m)
          \/ \E task_id \in HubTaskIds : MonitorSend(m, task_id)
          \/ MonitorSweep(m)

FanOutSpec == HubInit /\ [][FanOutNext]_vars

(* ------------------------------ claims -------------------------------- *)
\* the stored status of a task, "absent" when no TaskResult is stored
StatusOf(results, id) ==
    IF id \in DOMAIN results THEN results[id].status ELSE "absent"

\* a task is eligible: its scheduled_for is unset or has passed
Eligible(id) ==
    task_objs[id].scheduled_for = None \/ task_objs[id].scheduled_for <= now

\* the priority ranks of the specification: URGENT > HIGH > NORMAL > LOW
Rank == [URGENT |-> 4, HIGH |-> 3, NORMAL |-> 2, LOW |-> 1]

\* task a goes before task b: higher rank, or the same rank and submitted
\* earlier (task ids are handed out in submission order)
GoesBefore(a, b) ==
    \/ Rank[task_objs[a].priority] > Rank[task_objs[b].priority]
    \/ /\ Rank[task_objs[a].priority] = Rank[task_objs[b].priority]
       /\ a < b

\* the worker loop takes a task from the queue
Selects == w_pc = "loop" /\ w_pc' = "got"

\* the worker loop starts the work item of task id
Dispatches(id) == id \notin running_tasks /\ id \in running_tasks'

C8_NeverEarly ==
    [][\A id \in TaskIds :
          (Dispatches(id) \/ attempts'[id] > attempts[id]) =>
              (task_objs[id].scheduled_for = None
               \/ now >= task_objs[id].scheduled_for)
      ]_vars

\* C8 witness: a task submitted with a scheduled_for runs its first
\* attempt, started at scheduled_for or later, after a task that was retried
\* ran its second attempt
C8_Witness ==
    /\ w_pc = "exec" /\ w_task = 2
    /\ attempts[2] = 1
    /\ task_objs[2].scheduled_for > 0
    /\ w_linked
    /\ task_results[2].start_time >= task_objs[2].scheduled_for
    /\ attempts[1] = 2

\* a terminal status: COMPLETED, CANCELLED, or FAILED with no retry left
Terminal(results, id) ==
    \/ StatusOf(results, id) \in {"completed", "cancelled"}
    \/ StatusOf(results, id) = "failed" /\ task_objs[id].max_retries = 0

\* a status change of a stored TaskResult (its eviction is none)
StatusChanges(id) ==
    /\ id \in DOMAIN task_results
    /\ id \in DOMAIN task_results'
    /\ task_results'[id].status # task_results[id].status

\* cancel_task returns to its caller in this step
CancelReturns == c_pc \in {"check", "mark"} /\ c_pc' = "idle"

\* the work item of the running task returns normally in this step
WorkSucceeds ==
    /\ w_pc = "exec" /\ w_pc' = "finally"
    /\ stats'.tasks_completed = stats.tasks_completed + 1

\* C1: every accepted task eventually has a terminal status for good, and
\* the terminal status it reaches is the only one it ever has
C1_OneTerminalStatus ==
    /\ \A id \in TaskIds :
          [](id \in Returned => <>[]Terminal(task_results, id))
    /\ [][\A id \in TaskIds :
             Terminal(task_results, id) => ~StatusChanges(id)]_vars

\* C2: cancel_task on a PENDING task that is queued and was never
\* dispatched returns True, and such a task is never dispatched afterwards
C2_CancelledNeverRuns ==
    [][/\ (/\ c_pc = "mark" /\ c_pc' = "idle"
           /\ c_called_on = "pending"
           /\ StatusOf(task_results, c_target) = "pending"
           /\ c_target \in pending_queue
           /\ attempts[c_target] = 0) => c_ret' = TRUE
       /\ \A id \in pending_cancelled :
             ~Dispatches(id) /\ attempts'[id] = 0
      ]_vars

\* the statuses on which cancel_task is to fail ("absent": unknown id)
NotCancellable == {"absent", "completed", "failed", "cancelled", "retrying"}

\* C3: cancel_task called on an unknown id or on a task that is COMPLETED,
\* FAILED, CANCELLED or RETRYING (when called and when it returns) returns
\* False and changes no TaskResult
C3_CancelOnlyPending ==
    [][(/\ CancelReturns
        /\ c_called_on \in NotCancellable
        /\ StatusOf(task_results, c_target) \in NotCancellable)
       => c_ret' = FALSE /\ task_results' = task_results
      ]_vars

\* the last cancel_task call was on task id, found it in running_tasks and
\* returned False
Refused(id) ==
    /\ c_pc = "idle" /\ n_cancels > 0 /\ c_target = id /\ c_ret = FALSE
    /\ id \in DOMAIN task_results

\* C4: cancel_task on a task in running_tasks returns False and changes no
\* TaskResult, and when the work item of that task then succeeds the stored
\* TaskResult is COMPLETED with the result
C4_CancelRunning ==
    [][/\ (c_pc = "check" /\ c_target \in running_tasks /\ c_pc' # "check")
          => c_pc' = "idle" /\ c_ret' = FALSE /\ task_results' = task_results
       /\ (WorkSucceeds /\ Refused(w_task))
          => /\ task_results'[w_task].status = "completed"
             /\ task_results'[w_task].result = "value"
      ]_vars

\* C5: no step changes a terminal status
C5_TerminalAbsorbing ==
    [][\A id \in DOMAIN task_results :
          Terminal(task_results, id) =>
              StatusOf(task_results', id) \in {"absent", task_results[id].status}
      ]_vars

\* C7: whenever an eligible task is queued, the task the worker loop takes
\* is eligible, and the loop never puts a task back to wait while an
\* eligible task is queued
C7_IneligibleSkipped ==
    [][/\ (Selects /\ \E u \in pending_queue : Eligible(u)) => Eligible(w_task')
       /\ (w_pc = "got" /\ w_pc' = "loop")
          => ~\E u \in pending_queue : Eligible(u)
      ]_vars

\* C9: a COMPLETED TaskResult has retry_count equal to the number of failed
\* attempts of its task, and a FAILED one with no retry left has retry_count
\* equal to the max_retries the task was submitted with
C9_RetryCount ==
    \A id \in DOMAIN task_results :
        /\ task_results[id].status = "completed"
              => task_results[id].retry_count = failures[id]
        /\ (task_results[id].status = "failed" /\ task_objs[id].max_retries = 0)
              => task_results[id].retry_count = retries_arg[id]

\* no attempt of task id has succeeded once this step is done
NeverSucceeded(id) ==
    attempts'[id] - failures'[id] = IF w_task' = id /\ w_pc' = "exec" THEN 1 ELSE 0

\* the status changes of the sequence PENDING, n * (RUNNING, RETRYING),
\* RUNNING, FAILED
FailingSequence ==
    {<<"absent", "pending">>, <<"pending", "running">>,
     <<"running", "retrying">>, <<"retrying", "running">>,
     <<"running", "failed">>}

\* C10: a work item that fails every time is executed max_retries + 1 times
\* at most, its stored status moves along PENDING, n * (RUNNING, RETRYING),
\* RUNNING, FAILED, where FAILED comes with the last execution, and the
\* task is not queued again after that
C10_AlwaysFailing ==
    [][\A id \in TaskIds :
          (id < next_id /\ NeverSucceeded(id) /\ ~(n_cancels > 0 /\ c_target = id)) =>
             /\ attempts'[id] <= retries_arg[id] + 1
             /\ StatusOf(task_results', id) # StatusOf(task_results, id) =>
                   <<StatusOf(task_results, id), StatusOf(task_results', id)>>
                       \in FailingSequence
             /\ StatusOf(task_results', id) = "failed" =>
                   /\ attempts'[id] = retries_arg[id] + 1
                   /\ id \notin pending_queue'
      ]_vars

\* the transitions of the specified state machine
Transitions ==
    {<<"pending", "running">>, <<"pending", "cancelled">>,
     <<"running", "completed">>, <<"running", "failed">>,
     <<"failed", "retrying">>, <<"retrying", "pending">>}

\* C11: every change of a stored status is a transition of the specified
\* state machine; a RETRYING task is PENDING again before it is RUNNING again
\* and CANCELLED is entered from PENDING only
C11_StateMachine ==
    [][\A id \in TaskIds :
          StatusChanges(id) =>
              <<task_results[id].status, task_results'[id].status>> \in Transitions
      ]_vars

\* the submitting thread takes a step of submit_task
SubmitSteps == <<s_pc, s_ret, next_id>>' # <<s_pc, s_ret, next_id>>

\* C12: submit_task called while the queue holds as many tasks as its
\* capacity is rejected with the queue-full error, and the queue, the stored
\* TaskResults and the counters are what they were
C12_FullRejected ==
    [][(/\ s_pc = "idle"
        /\ Cardinality(pending_queue) = maxsize
        /\ SubmitSteps)
       => /\ s_ret' = "full"
          /\ s_pc' = "idle"
          /\ pending_queue' = pending_queue
          /\ task_results' = task_results
          /\ task_objs' = task_objs
          /\ stats' = stats
          /\ next_id' = next_id
      ]_vars

\* C12 witness: a call was rejected and the queue is still at its capacity
\* of two tasks, both accepted before
C12_Witness ==
    /\ s_ret = "full" /\ s_pc = "idle"
    /\ maxsize = 2
    /\ pending_queue = {1, 2}
    /\ DOMAIN task_results = {1, 2}
    /\ stats.tasks_submitted = 2

\* C13: no submit_task call is ever at pending_queue.put with the queue
\* full, where it waits for queue space
C13_SubmitNeverBlocks == ~(s_pc = "put" /\ QueueFull(pending_queue))

\* C14: an attempt that overruns its timeout is counted as failed and stores
\* status FAILED with the timeout error; it is retried while retries remain
\* and the work item is never invoked more than max_retries + 1 times
C14_TimeoutFails ==
    [][/\ ExecuteFail("timeout") =>
             /\ task_results'[w_task].status = "failed"
             /\ task_results'[w_task].error = "timeout"
             /\ stats'.tasks_failed = stats.tasks_failed + 1
             /\ w_pc' = "retry"
       /\ (w_pc = "retry" /\ w_pc' # "retry") =>
             (w_pc' = "retry_put") = (task_objs[w_task].max_retries > 0)
       /\ \A id \in TaskIds : attempts'[id] <= retries_arg'[id] + 1
      ]_vars

\* C15: a retry made when the stored retry_count is r sets scheduled_for
\* min(2^r, 60) seconds ahead
C15_Backoff ==
    [][RetryTask =>
          task_objs'[w_task].scheduled_for - now =
              Min(Pow2(task_results[w_task].retry_count), BackoffCap)
      ]_vars

\* C16: an exception of a work item is stored as the error of its task and
\* the worker loop goes on: every task queued is dispatched in the end
C16_ExceptionIsolated ==
    /\ [][ExecuteFail("exception") =>
             /\ task_results'[w_task].status = "failed"
             /\ task_results'[w_task].error = "exception"
             /\ w_pc' = "retry"
         ]_vars
    /\ \A id \in TaskIds :
          (id \in pending_queue) ~> (id \in running_tasks)

\* session_id is a subscriber of task_id
Subscribed(session_id, task_id) ==
    task_id \in DOMAIN task_subscribers /\ session_id \in task_subscribers[task_id]

\* C17: a task_status_update is delivered to a connection only with a status
\* other than the one last delivered to it for that task, and a status of a
\* task is delivered to each of its subscribers before the status changes
\* again
C17_OnePushPerTransition ==
    [][/\ \A k \in Senders, s \in Sessions :
             EmitOk(k, s) => pushed[s][snd[k].task_id] # snd[k].task_data
       /\ \A t \in HubTaskIds, s \in Sessions :
             (StatusChanges(t) /\ Subscribed(s, t)) =>
                 pushed[s][t] = task_results[t].status
      ]_vars

\* C18: a task_status_update for a task is delivered only to a session that
\* is in the subscriber set of that task when it is delivered
C18_OnlySubscribers ==
    [][\A k \in Senders, s \in Sessions :
          EmitOk(k, s) => Subscribed(s, snd[k].task_id)
      ]_vars

\* C19: a session that a stale sweep has cleaned up is in no subscriber set,
\* in neither connected_clients nor client_heartbeats, and no emit is
\* attempted to it
C19_StaleRemoved ==
    [][\A s \in swept :
          /\ s \notin DOMAIN connected_clients'
          /\ s \notin DOMAIN client_heartbeats'
          /\ \A t \in HubTaskIds : ~Subscribed(s, t)'
          /\ \A k \in Senders : ~EmitOk(k, s) /\ ~EmitFail(k, s)
      ]_vars

\* C20: when the emit to one session raises, every other session of the copy
\* that is a subscriber of the task is still to be emitted to by the same
\* _send_task_status call, and the call goes on or returns normally
C20_FailureIsolated ==
    [][\A k \in Senders, s \in Sessions :
          EmitFail(k, s) =>
              /\ \A o \in snd[k].sids \ {s} :
                    Subscribed(o, snd[k].task_id) =>
                        /\ snd'[k].pc = "emit"
                        /\ snd'[k].task_id = snd[k].task_id
                        /\ snd'[k].task_data = snd[k].task_data
                        /\ o \in snd'[k].sids
              /\ snd'[k].pc \in {"emit", AfterSend(k)}
      ]_vars

\* C20 witness: in one _send_task_status call the emit to session 1 has
\* failed and the loop is at the emit to session 2, still a subscriber
C20_Witness ==
    \E k \in Senders :
        /\ snd[k].pc = "emit"
        /\ snd[k].failed = {1}
        /\ snd[k].sids = {2}
        /\ Subscribed(2, snd[k].task_id)
        /\ ~Subscribed(1, snd[k].task_id)
        /\ ws_stats.messages_sent < MaxMessages

\* C21: subscribe_task for a task with a stored TaskResult makes the session
\* a subscriber and starts a push of the task's current status with the
\* session among its recipients, and the status of the task does not change
\* before a push has been delivered to the session
C21_SubscribePushesCurrent ==
    [][\A s \in Sessions, t \in HubTaskIds :
          /\ (SubscribeTask(s, t) /\ t \in DOMAIN task_results) =>
                /\ Subscribed(s, t)'
                /\ snd'[Handler].pc = "emit"
                /\ snd'[Handler].task_id = t
                /\ snd'[Handler].task_data = task_results[t].status
                /\ s \in snd'[Handler].sids
          /\ (StatusChanges(t) /\ Subscribed(s, t)) => pushed[s][t] # "none"
      ]_vars

\* C22: task_results is written only by the worker loop: no step of a
\* thread in submit_task or in cancel_task changes it
C22_SingleWriter ==
    [][task_results' # task_results => (s_pc' = s_pc /\ c_pc' = c_pc)]_vars

\* C23: while a task is RUNNING, another queued task is eligible and fewer
\* than max_workers tasks are running, the worker loop can take the next
\* task from the queue
C23_LoopNotStalled ==
    (/\ running_tasks # {}
     /\ \E id \in pending_queue : Eligible(id)
     /\ Cardinality(running_tasks) < max_workers)
        => ENABLED WorkerGet

\* C26: the worker loop is never at a pending_queue.put (the requeue of a
\* task not yet due, the put of a retry) that finds the queue full
C26_WorkerPutNeverBlocks ==
    ~(/\ QueueFull(pending_queue)
      /\ \/ w_pc = "retry_put"
         \/ w_pc = "got" /\ NotYetDue(task_objs[w_task], now))

\* C27: a stored TaskResult that is no longer PENDING never becomes PENDING
\* again
C27_PendingNeverOverwrites ==
    [][\A id \in TaskIds :
          (StatusOf(task_results, id) \notin {"absent", "pending"}) =>
              StatusOf(task_results', id) # "pending"
      ]_vars

\* C29: a session is in task_subscribers[t] exactly when it is a connected
\* client with t in its subscribed_tasks, and no subscriber set is empty
C29_IndexesAgree ==
    /\ \A t \in HubTaskIds, s \in Sessions :
          Subscribed(s, t) <=>
              (s \in DOMAIN connected_clients
                  /\ t \in connected_clients[s].subscribed_tasks)
    /\ \A t \in DOMAIN task_subscribers : task_subscribers[t] # {}

\* C30: current_connections is the number of entries of connected_clients
\* and is never negative
C30_ConnectionCount ==
    /\ ws_stats.current_connections = Cardinality(DOMAIN connected_clients)
    /\ ws_stats.current_connections >= 0

\* C24: running_tasks never holds more than max_workers tasks, and a task is
\* marked running only when it held fewer than max_workers before
C24_WorkerLimit ==
    [][/\ Cardinality(running_tasks) <= max_workers
       /\ Cardinality(running_tasks') <= max_workers
       /\ \A id \in TaskIds :
             Dispatches(id) => Cardinality(running_tasks) < max_workers
      ]_vars

\* C24 witness: max_workers tasks are running, so the limit is reached,
\* while another task is queued
C24_Witness ==
    /\ w_pc = "exec"
    /\ Cardinality(running_tasks) = max_workers
    /\ pending_queue # {}
    /\ attempts[w_task] = 1

\* C25: a TaskResult leaves task_results only when its status is COMPLETED,
\* FAILED or CANCELLED and its end_time is more than the retention window
\* in the past
C25_SweepOnlyOldTerminal ==
    [][\A id \in DOMAIN task_results :
          id \notin DOMAIN task_results' =>
              /\ task_results[id].status \in {"completed", "failed", "cancelled"}
              /\ task_results[id].end_time # None
              /\ task_results[id].end_time < now - RetentionSecs
      ]_vars

\* the invocations of the work item of task id that are in progress: the one
\* the worker loop waits for and the ones left running in the pool
Executions(id) ==
    abandoned[id] + (IF w_pc = "exec" /\ w_task = id THEN 1 ELSE 0)

\* C28: at most one invocation of a task's work item is in progress
C28_OneExecution == \A id \in TaskIds : Executions(id) <= 1

=============================================================================
